---- MODULE Spec2Model ----
(***************************************************************************)
(* Model of the WiFi connection manager of the MCH2022 badge BSP           *)
(* (wifi_connection.c): the retry policy, the event group, the event       *)
(* handler run by the event task, and the caller-side operations           *)
(* (connect, await, disconnect, scan), interleaved with the event task and *)
(* with the station hardware that posts the events.                        *)
(***************************************************************************)
EXTENDS Integers, Sequences, FiniteSets, TLC

\* ------------------------------------------------------------------ bounds
\* Largest finite retry limit a caller passes.
MaxRetryArg == 2
\* Capacity of the event queue between the hardware and the event task.
MaxQueue == 2
\* Disassociation events the hardware posts on its own after a connect or
\* disconnect call.
MaxDisassoc == 3
\* History counters saturate here.
MaxCount == MaxDisassoc + 1

\* --------------------------------------------------------- program constants
\* uint8_t retryCount, maxRetries.
ByteMod == 256
\* wifi_connection.h: the sentinel of aRetryMax that means "retry forever".
WIFI_INFINITE_RETRIES == 255

WIFI_CONNECTED_BIT == "CONNECTED"
WIFI_FAIL_BIT == "FAIL"
WIFI_STARTED_BIT == "STARTED"
AllBits == {WIFI_CONNECTED_BIT, WIFI_FAIL_BIT, WIFI_STARTED_BIT}

\* esp_netif_ip_info_t: three 32-bit values; ip_info = {0} before any event.
NoIp == [ip |-> 0, netmask |-> 0, gw |-> 0]
IpChoices == {[ip |-> 1, netmask |-> 1, gw |-> 1], [ip |-> 2, netmask |-> 1, gw |-> 2]}

RetryArgs == 0 .. MaxRetryArg

VARIABLES
    \* wifi_connection.c statics
    retryCount, maxRetries, isScanning, ip_info, wifiEventGroup,
    \* the caller thread: position, arguments and locals, returned value
    pc, aRetryMax, blocking, timeout, awBits, stopWhenDone, ret,
    \* the event task: position inside event_handler, and the loaded counter
    evpc, evtmp,
    \* the station hardware and the events it has posted
    hw, queue,
    \* history of the events handled since the last connect call cleared the
    \* event bits, or since the last disconnect call:
    \*   disCnt    the disassociation events handled
    \*   evShape   "dis": disassociations only; "got": then one address
    \*             acquisition, nothing after it; "later_dis" / "later_got":
    \*             more after that, the last one a disassociation / acquisition
    \*   connReqs  the connect requests of the handler while evShape = "dis"
    \*             and the FAIL bit is clear
    \*   lastGotIp the ip_info of the last acquisition event handled
    disCnt, evShape, connReqs, lastGotIp,
    \* lastCall: the last of the two calls ("none" before the first);
    \* discReconnect: a disassociation handled after wifi_disconnect, and
    \* before the next connect call, asked the hardware to connect
    lastCall, discReconnect,
    \* history of the caller's operation in progress
    hwFailed, awaitStop, scanWasRunning, scanExit,
    \* hardware.c statics: the readiness flags and the co-processor's
    \* firmware version
    bsp_ready, rp2040_ready, ice40_ready, bno055_ready, bme680_ready,
    rp2040_fw_version,
    \* history: the init functions that have returned ESP_OK
    initOk

statics == <<retryCount, maxRetries, isScanning, ip_info, wifiEventGroup>>
callerVars == <<pc, aRetryMax, blocking, timeout, awBits, stopWhenDone, ret>>
evVars == <<evpc, evtmp>>
hwVars == <<hw, queue>>
evHist == <<disCnt, evShape, connReqs, lastGotIp>>
dcHist == <<lastCall, discReconnect>>
opHist == <<hwFailed, awaitStop, scanWasRunning, scanExit>>
bspFlags == <<bsp_ready, rp2040_ready, ice40_ready, bno055_ready, bme680_ready>>
bspVars == <<bspFlags, rp2040_fw_version, initOk>>
vars == <<statics, callerVars, evVars, hwVars, evHist, dcHist, opHist, bspVars>>

Sat(n) == IF n >= MaxCount THEN MaxCount ELSE n + 1
\* The handler's connect requests are counted up to the first acquisition
\* and up to the FAIL bit.
Counted(n) == IF evShape = "dis" /\ WIFI_FAIL_BIT \notin wifiEventGroup THEN Sat(n) ELSE n

\* ---------------------------------------------------------------- hardware
\* The station driver the code calls into.  hw is one of
\*   "stopped", "idle" (started, not associating), "connecting", "connected".
Ev(t) == [type |-> t, info |-> NoIp]
GotIpEv(i) == [type |-> "GOT_IP", info |-> i]

\* esp_wifi_connect(): starts an association when the station is started and
\* idle; an error (ignored by the callers) when it is stopped.
HwConnect(h) == IF h = "idle" THEN "connecting" ELSE h

\* esp_wifi_stop(): the events the driver posts, as the possible outcomes.
HwStopPosts(h) ==
    CASE h = "stopped" -> {<<>>}
      [] h = "idle" -> {<<Ev("STA_STOP")>>}
      [] h = "connecting" -> {<<Ev("STA_STOP")>>, <<Ev("STA_DISCONNECTED"), Ev("STA_STOP")>>}
      [] h = "connected" -> {<<Ev("STA_DISCONNECTED"), Ev("STA_STOP")>>}

\* esp_wifi_disconnect(): the events the driver posts, and the state it leaves.
HwDisconnectPosts(h) ==
    CASE h = "connecting" -> {<<>>, <<Ev("STA_DISCONNECTED")>>}
      [] h = "connected" -> {<<Ev("STA_DISCONNECTED")>>}
      [] OTHER -> {<<>>}

HwAfterDisconnect(h) == IF h \in {"connecting", "connected"} THEN "idle" ELSE h

\* esp_wifi_start(), successful: a stopped station starts and posts STA_START.
HwStartPosts(h) == IF h = "stopped" THEN <<Ev("STA_START")>> ELSE <<>>
HwAfterStart(h) == IF h = "stopped" THEN "idle" ELSE h

Fits(posts) == Len(queue) + Len(posts) <= MaxQueue

\* A call of esp_wifi_stop() by the caller thread.
CallStop ==
    /\ \E posts \in HwStopPosts(hw) :
         /\ Fits(posts)
         /\ queue' = queue \o posts
    /\ hw' = "stopped"

PendingDis == Cardinality({i \in 1 .. Len(queue) : queue[i].type = "STA_DISCONNECTED"})

\* Whether the hardware may post one more disassociation on its own.
DisBudget(bounded) == bounded => disCnt + PendingDis < MaxDisassoc

\* The association attempt fails: STA_DISCONNECTED.
HwAssocFail(bounded) ==
    /\ hw = "connecting"
    /\ DisBudget(bounded)
    /\ Fits(<<Ev("STA_DISCONNECTED")>>)
    /\ hw' = "idle"
    /\ queue' = Append(queue, Ev("STA_DISCONNECTED"))
    /\ UNCHANGED <<statics, callerVars, evVars, evHist, dcHist, opHist>>
    /\ UNCHANGED bspVars

\* The association succeeds and DHCP hands out an address: IP_EVENT_STA_GOT_IP.
HwGotIp ==
    /\ hw = "connecting"
    /\ \E i \in IpChoices :
         /\ Fits(<<GotIpEv(i)>>)
         /\ queue' = Append(queue, GotIpEv(i))
    /\ hw' = "connected"
    /\ UNCHANGED <<statics, callerVars, evVars, evHist, dcHist, opHist>>
    /\ UNCHANGED bspVars

\* An established link is lost: STA_DISCONNECTED.
HwLinkLost(bounded) ==
    /\ hw = "connected"
    /\ DisBudget(bounded)
    /\ Fits(<<Ev("STA_DISCONNECTED")>>)
    /\ hw' = "idle"
    /\ queue' = Append(queue, Ev("STA_DISCONNECTED"))
    /\ UNCHANGED <<statics, callerVars, evVars, evHist, dcHist, opHist>>
    /\ UNCHANGED bspVars

\* Variants of the retry test: one that retries once more than the limit
\* allows, and one without the WIFI_INFINITE_RETRIES sentinel.
ShouldRetryInclusive(rc, mx) == mx = WIFI_INFINITE_RETRIES \/ rc <= mx
ShouldRetryNoSentinel(rc, mx) == rc < mx
\* A variant that gives up one disassociation early.
ShouldRetryEarly(rc, mx) == mx = WIFI_INFINITE_RETRIES \/ rc + 1 < mx

\* ------------------------------------------------------------ event_handler
\* The retry test of the STA_DISCONNECTED branch.
ShouldRetry(rc, mx) == mx = WIFI_INFINITE_RETRIES \/ rc < mx

\* retryCount++ on a uint8_t.
IncByte(n) == (n + 1) % ByteMod

\* Whether the STA_START branch asks the hardware to connect.
StartConnects(scanning) == ~scanning

\* WIFI_EVENT_STA_START
OnStaStart ==
    /\ evpc = "idle" /\ queue # <<>> /\ Head(queue).type = "STA_START"
    /\ queue' = Tail(queue)
    /\ wifiEventGroup' = wifiEventGroup \cup {WIFI_STARTED_BIT}
    /\ IF StartConnects(isScanning)
         THEN /\ hw' = HwConnect(hw)
              /\ connReqs' = Counted(connReqs)
         ELSE /\ hw' = hw
              /\ connReqs' = connReqs
    /\ UNCHANGED <<retryCount, maxRetries, isScanning, ip_info, callerVars, evVars,
                   disCnt, evShape, lastGotIp, dcHist, opHist>>
    /\ UNCHANGED bspVars

\* WIFI_EVENT_STA_STOP
OnStaStop ==
    /\ evpc = "idle" /\ queue # <<>> /\ Head(queue).type = "STA_STOP"
    /\ queue' = Tail(queue)
    /\ wifiEventGroup' = wifiEventGroup \ {WIFI_STARTED_BIT}
    /\ UNCHANGED <<retryCount, maxRetries, isScanning, ip_info, callerVars, evVars, hw,
                   evHist, dcHist, opHist>>
    /\ UNCHANGED bspVars

\* WIFI_EVENT_STA_DISCONNECTED: the test, and either the reconnect request or
\* the FAIL bit.  The increment of retryCount follows in OnDisconnectedLoad/Store.
OnDisconnected ==
    /\ evpc = "idle" /\ queue # <<>> /\ Head(queue).type = "STA_DISCONNECTED"
    /\ queue' = Tail(queue)
    /\ disCnt' = Sat(disCnt)
    /\ evShape' = IF evShape = "dis" THEN "dis" ELSE "later_dis"
    /\ IF ShouldRetry(retryCount, maxRetries)
         THEN /\ hw' = HwConnect(hw)
              /\ connReqs' = Counted(connReqs)
              /\ discReconnect' = (discReconnect \/ lastCall = "disconnect")
              /\ evpc' = "inc_load"
              /\ wifiEventGroup' = wifiEventGroup
         ELSE /\ hw' = hw
              /\ connReqs' = connReqs
              /\ discReconnect' = discReconnect
              /\ evpc' = "idle"
              /\ wifiEventGroup' = wifiEventGroup \cup {WIFI_FAIL_BIT}
    /\ UNCHANGED <<retryCount, maxRetries, isScanning, ip_info, callerVars, evtmp,
                   lastGotIp, lastCall, opHist>>
    /\ UNCHANGED bspVars

\* retryCount++: the load ...
OnDisconnectedLoad ==
    /\ evpc = "inc_load"
    /\ evtmp' = retryCount
    /\ evpc' = "inc_store"
    /\ UNCHANGED <<statics, callerVars, hwVars, evHist, dcHist, opHist>>
    /\ UNCHANGED bspVars

\* ... and the store.
OnDisconnectedStore ==
    /\ evpc = "inc_store"
    /\ retryCount' = IncByte(evtmp)
    /\ evtmp' = 0
    /\ evpc' = "idle"
    /\ UNCHANGED <<maxRetries, isScanning, ip_info, wifiEventGroup, callerVars, hwVars,
                   evHist, dcHist, opHist>>
    /\ UNCHANGED bspVars

\* A variant of the GOT_IP branch that copies the address but keeps the
\* netmask and the gateway it had.
GotIpInfoAddressOnly(old, info) == [old EXCEPT !.ip = info.ip]

\* What the GOT_IP branch stores in ip_info: the event's ip_info.
GotIpInfo(old, info) == info

\* A variant of the GOT_IP branch that keeps retryCount.
GotIpRetryCountKept(rc) == rc

\* What the GOT_IP branch stores in retryCount.
GotIpRetryCount(rc) == 0

\* IP_EVENT_STA_GOT_IP
OnGotIp ==
    /\ evpc = "idle" /\ queue # <<>> /\ Head(queue).type = "GOT_IP"
    /\ queue' = Tail(queue)
    /\ ip_info' = GotIpInfo(ip_info, Head(queue).info)
    /\ retryCount' = GotIpRetryCount(retryCount)
    /\ wifiEventGroup' = wifiEventGroup \cup {WIFI_CONNECTED_BIT}
    /\ evShape' = IF evShape = "dis" THEN "got" ELSE "later_got"
    /\ lastGotIp' = Head(queue).info
    /\ UNCHANGED <<maxRetries, isScanning, callerVars, evVars, hw, disCnt, connReqs, dcHist,
                   opHist>>
    /\ UNCHANGED bspVars

\* ------------------------------------------------------------ caller thread
NoRet == [op |-> "none", val |-> FALSE]

\* The return of a caller's operation: pc = "done" holds the result until the
\* caller goes on.
Resume ==
    /\ pc = "done"
    /\ pc' = "idle"
    /\ ret' = NoRet
    /\ blocking' = FALSE
    /\ hwFailed' = FALSE
    /\ awaitStop' = FALSE
    /\ scanExit' = "none"
    /\ scanWasRunning' = FALSE
    /\ awBits' = {}
    /\ UNCHANGED <<statics, aRetryMax, timeout, stopWhenDone, evVars, hwVars,
                   evHist, dcHist>>
    /\ UNCHANGED bspVars

\* wifi_connect / wifi_connect_ent (b) and wifi_connect_async /
\* wifi_connect_ent_async (~b), entered with aRetryMax = n: retryCount = 0.
\* The personal and the enterprise variant take the same steps on the shared
\* state; they differ in the hardware calls of ConnectConfigure.
ConnectCall(n, b) ==
    /\ pc = "idle"
    /\ aRetryMax' = n /\ blocking' = b
    /\ retryCount' = 0
    /\ pc' = "ca_max"
    /\ lastCall' = "connect" /\ discReconnect' = FALSE
    /\ UNCHANGED <<maxRetries, isScanning, ip_info, wifiEventGroup, timeout, awBits,
                   stopWhenDone, ret, evVars, hwVars, evHist, opHist>>
    /\ UNCHANGED bspVars

\* maxRetries = aRetryMax
ConnectSetMax ==
    /\ pc = "ca_max"
    /\ maxRetries' = aRetryMax
    /\ aRetryMax' = 0
    /\ pc' = "ca_disc"
    /\ UNCHANGED <<retryCount, isScanning, ip_info, wifiEventGroup, blocking,
                   timeout, awBits, stopWhenDone, ret, evVars, hwVars, evHist, dcHist, opHist>>
    /\ UNCHANGED bspVars

\* esp_wifi_disconnect()
ConnectDisconnect ==
    /\ pc = "ca_disc"
    /\ \E posts \in HwDisconnectPosts(hw) :
         /\ Fits(posts)
         /\ queue' = queue \o posts
    /\ hw' = HwAfterDisconnect(hw)
    /\ pc' = "ca_stop"
    /\ UNCHANGED <<statics, aRetryMax, blocking, timeout, awBits, stopWhenDone, ret,
                   evVars, evHist, dcHist, opHist>>
    /\ UNCHANGED bspVars

\* esp_wifi_stop()
ConnectStop ==
    /\ pc = "ca_stop"
    /\ CallStop
    /\ pc' = "ca_clear"
    /\ UNCHANGED <<statics, aRetryMax, blocking, timeout, awBits, stopWhenDone, ret,
                   evVars, evHist, dcHist, opHist>>
    /\ UNCHANGED bspVars

\* The bits xEventGroupClearBits(wifiEventGroup, 0xFF) clears.
ClearMask == AllBits

\* xEventGroupClearBits(wifiEventGroup, 0xFF)
ConnectClearBits ==
    /\ pc = "ca_clear"
    /\ wifiEventGroup' = wifiEventGroup \ ClearMask
    /\ pc' = "ca_cfg"
    /\ disCnt' = 0 /\ evShape' = "dis" /\ connReqs' = 0
    /\ UNCHANGED <<retryCount, maxRetries, isScanning, ip_info, aRetryMax, blocking,
                   timeout, awBits, stopWhenDone, ret, evVars, hwVars, lastGotIp, dcHist,
                   opHist>>
    /\ UNCHANGED bspVars

\* The hardware calls of the two variants whose rejection jumps to error:.
ConfigCalls(e) ==
    IF e THEN {"set_mode", "set_config", "ent_credentials", "config_11b_rate", "start"}
         ELSE {"set_mode", "set_config", "start"}

\* Where wifi_connect_async returns to: wifi_await(0) inside wifi_connect, or
\* the caller.
AfterAsync(b) == IF b THEN "aw_wait" ELSE "done"
AsyncRet(b) == IF b THEN NoRet ELSE [op |-> "connect_async", val |-> FALSE]

\* esp_wifi_set_mode, esp_wifi_set_config, (the enterprise calls,)
\* esp_wifi_start: one of them rejected (goto error), or all accepted and the
\* station starts.
ConnectConfigure ==
    /\ pc = "ca_cfg"
    /\ \/ /\ \E e \in BOOLEAN : \E c \in ConfigCalls(e) : hwFailed' = TRUE
          /\ UNCHANGED hwVars
       \/ /\ Fits(HwStartPosts(hw))
          /\ queue' = queue \o HwStartPosts(hw)
          /\ hw' = HwAfterStart(hw)
          /\ UNCHANGED hwFailed
    /\ pc' = AfterAsync(blocking)
    /\ ret' = AsyncRet(blocking)
    /\ timeout' = 0
    /\ UNCHANGED <<statics, aRetryMax, blocking, awBits, stopWhenDone, evVars,
                   evHist, dcHist, awaitStop, scanWasRunning, scanExit>>
    /\ UNCHANGED bspVars

\* wifi_await(t) called directly: t = 0 waits without bound.
AwaitCall(t) ==
    /\ pc = "idle"
    /\ timeout' = t
    /\ pc' = "aw_wait"
    /\ UNCHANGED <<statics, aRetryMax, blocking, awBits, stopWhenDone, ret, evVars,
                   hwVars, evHist, dcHist, opHist>>
    /\ UNCHANGED bspVars

\* The bits wifi_await waits for.
AwaitMask == {WIFI_CONNECTED_BIT, WIFI_FAIL_BIT}

\* A variant of wifi_await's result: true as soon as either awaited bit is set.
AwaitResultAnyBit(b) == b \cap AwaitMask # {}

\* A variant of wifi_await's stop: only the branch that saw neither bit stops.
AwaitStopsUnknownOnly(b) == b \cap AwaitMask = {}

\* The value wifi_await returns for the bits it woke up with.
AwaitResult(b) == WIFI_CONNECTED_BIT \in b
\* Whether wifi_await calls esp_wifi_stop() for those bits.
AwaitStops(b) == WIFI_CONNECTED_BIT \notin b

\* xEventGroupWaitBits(CONNECTED | FAIL, no clear, any bit, ticks) returns the
\* bits (awBits) when one of the two is set, or when a bounded wait expires;
\* then the return of true, or esp_wifi_stop() and the return of false.
AwaitReturn ==
    /\ pc = "aw_wait"
    /\ \/ wifiEventGroup \cap AwaitMask # {}
       \/ timeout # 0
    /\ awBits' = wifiEventGroup
    /\ IF AwaitStops(wifiEventGroup)
         THEN /\ CallStop
              /\ awaitStop' = TRUE
         ELSE /\ UNCHANGED hwVars
              /\ awaitStop' = FALSE
    /\ ret' = [op |-> IF blocking THEN "connect" ELSE "await",
               val |-> AwaitResult(wifiEventGroup)]
    /\ pc' = "done"
    /\ timeout' = 0
    /\ UNCHANGED <<statics, aRetryMax, blocking, stopWhenDone, evVars,
                   evHist, dcHist, hwFailed, scanWasRunning, scanExit>>
    /\ UNCHANGED bspVars

\* wifi_disconnect(): the limit it writes.
DisconnectLimit == 0

\* wifi_disconnect(): maxRetries = 0 ...
DisconnectCall ==
    /\ pc = "idle"
    /\ maxRetries' = DisconnectLimit
    /\ lastCall' = "disconnect"
    /\ discReconnect' = FALSE
    /\ disCnt' = 0 /\ evShape' = "dis" /\ connReqs' = 0
    /\ pc' = "dc_stop"
    /\ UNCHANGED <<retryCount, isScanning, ip_info, wifiEventGroup, aRetryMax, blocking,
                   timeout, awBits, stopWhenDone, ret, evVars, hwVars, lastGotIp, opHist>>
    /\ UNCHANGED bspVars

\* ... and esp_wifi_stop().
DisconnectStop ==
    /\ pc = "dc_stop"
    /\ CallStop
    /\ ret' = [op |-> "disconnect", val |-> FALSE]
    /\ pc' = "done"
    /\ UNCHANGED <<statics, aRetryMax, blocking, timeout, awBits, stopWhenDone,
                   evVars, evHist, dcHist, opHist>>
    /\ UNCHANGED bspVars

\* wifi_is_connected()
IsConnectedValue(b) == WIFI_CONNECTED_BIT \in b

IsConnected ==
    /\ pc = "idle"
    /\ ret' = [op |-> "is_connected", val |-> IsConnectedValue(wifiEventGroup)]
    /\ pc' = "done"
    /\ UNCHANGED <<statics, aRetryMax, blocking, timeout, awBits, stopWhenDone,
                   evVars, hwVars, evHist, dcHist, opHist>>
    /\ UNCHANGED bspVars

\* wifi_get_ip_info(), and the caller reading what it points to.
GetIpInfo ==
    /\ pc = "idle"
    /\ ret' = [op |-> "get_ip_info", val |-> ip_info]
    /\ pc' = "done"
    /\ UNCHANGED <<statics, aRetryMax, blocking, timeout, awBits, stopWhenDone,
                   evVars, hwVars, evHist, dcHist, opHist>>
    /\ UNCHANGED bspVars

\* ---------------------------------------------------------------- wifi_scan
ScanFrame ==
    UNCHANGED <<retryCount, maxRetries, ip_info, wifiEventGroup, aRetryMax, blocking,
                timeout, awBits, evVars, evHist, dcHist, hwFailed, awaitStop, bspVars>>

\* Number of access points a scan reports.
ApCounts == {0, 1}

\* What wifi_scan hands back: the returned count, and whether *aps_out was
\* written ("aps") or left as the caller had it ("untouched").
ScanResult(n, out) == [op |-> "scan", val |-> [count |-> n, aps_out |-> out]]

\* What *aps_out holds after the regular return: the list if aps_out is
\* non-NULL, otherwise there is nothing to write and the list is freed.
ApsOutChoices == {"aps", "untouched"}

\* A variant of the failure returns that hands back num_ap.
ScanFailCountKept(n) == n

\* The count the returns on malloc failure and through error: hand back,
\* with num_ap = n read so far.
ScanFailCount(n) == 0

\* The return through ohno: (isScanning = false; return 0).
ScanOhno(path) ==
    /\ isScanning' = FALSE
    /\ ret' = ScanResult(0, "untouched")
    /\ scanExit' = path
    /\ stopWhenDone' = FALSE
    /\ pc' = "done"

\* wifi_scan() up to the wait for the STARTED bit: isScanning = true;
\* esp_wifi_scan_start(&cfg, true), which a stopped station answers with
\* ESP_ERR_WIFI_NOT_STARTED and a started one with success or another error;
\* on NOT_STARTED esp_wifi_set_mode(WIFI_MODE_STA), esp_wifi_start() and
\* stopWhenDone = true.
ScanCall ==
    /\ pc = "idle"
    /\ scanWasRunning' = (hw # "stopped")
    /\ IF hw = "stopped"
         THEN \/ /\ \E c \in {"set_mode", "start"} : ScanOhno(c)
                 /\ UNCHANGED hwVars
              \/ /\ Fits(HwStartPosts(hw))
                 /\ queue' = queue \o HwStartPosts(hw)
                 /\ hw' = HwAfterStart(hw)
                 /\ stopWhenDone' = TRUE
                 /\ isScanning' = TRUE
                 /\ pc' = "sc_retry"
                 /\ UNCHANGED <<ret, scanExit>>
         ELSE \/ /\ ScanOhno("scan_start")
                 /\ UNCHANGED hwVars
              \/ /\ isScanning' = TRUE
                 /\ stopWhenDone' = FALSE
                 /\ pc' = "sc_collect"
                 /\ UNCHANGED <<ret, scanExit, hwVars>>
    /\ ScanFrame

\* xEventGroupWaitBits(STARTED, 2000 ms), which returns with the bit or on
\* expiry, and esp_wifi_scan_start(&cfg, true), second try.
ScanRetry ==
    /\ pc = "sc_retry"
    /\ \/ /\ pc' = "sc_collect"
          /\ UNCHANGED <<isScanning, ret, scanExit, stopWhenDone>>
       \/ ScanOhno("scan_retry")
    /\ UNCHANGED <<scanWasRunning, hwVars>>
    /\ ScanFrame

\* The returns that leave wifi_scan without passing line 332: through error:
\* (get_ap_num or get_ap_records rejected) and on malloc returning NULL.
ScanErrorPaths == {"get_ap_num", "malloc", "get_ap_records"}

\* What those returns write to isScanning: nothing.
ScanErrorScanning(s) == s

\* Whether those returns call esp_wifi_stop(): never.
ScanErrorStops(swd) == FALSE

\* Whether the regular return calls esp_wifi_stop().
ScanFinishStops(swd) == swd

\* esp_wifi_scan_get_ap_num, malloc, esp_wifi_scan_get_ap_records, and then
\* either a return on their failure, or
\* if (stopWhenDone) esp_wifi_stop(); isScanning = false; return num_ap.
ScanCollect ==
    /\ pc = "sc_collect"
    /\ \/ /\ \E path \in ScanErrorPaths :
                /\ scanExit' = path
                /\ \E n \in IF path = "get_ap_num" THEN {0} ELSE ApCounts :
                      ret' = ScanResult(ScanFailCount(n), "untouched")
          /\ isScanning' = ScanErrorScanning(isScanning)
          /\ IF ScanErrorStops(stopWhenDone) THEN CallStop ELSE UNCHANGED hwVars
       \/ /\ scanExit' = "success"
          /\ isScanning' = FALSE
          /\ \E n \in ApCounts, out \in ApsOutChoices : ret' = ScanResult(n, out)
          /\ IF ScanFinishStops(stopWhenDone) THEN CallStop ELSE UNCHANGED hwVars
    /\ stopWhenDone' = FALSE
    /\ pc' = "done"
    /\ UNCHANGED scanWasRunning
    /\ ScanFrame

\* --------------------------------------------------------------- the system
\* static uint8_t maxRetries = 3
InitMaxRetries == 3

\* After wifi_init(): the statics as initialised, the station stopped.
Init ==
    /\ retryCount = 0
    /\ maxRetries = InitMaxRetries
    /\ isScanning = FALSE
    /\ ip_info = NoIp
    /\ wifiEventGroup = {}
    /\ pc = "idle" /\ aRetryMax = 0 /\ blocking = FALSE /\ timeout = 0
    /\ awBits = {} /\ stopWhenDone = FALSE /\ ret = NoRet
    /\ evpc = "idle" /\ evtmp = 0
    /\ hw = "stopped" /\ queue = <<>>
    /\ disCnt = 0 /\ evShape = "dis" /\ connReqs = 0
    /\ lastGotIp = NoIp
    /\ lastCall = "none" /\ discReconnect = FALSE
    /\ hwFailed = FALSE /\ awaitStop = FALSE
    /\ scanWasRunning = FALSE /\ scanExit = "none"
    /\ bsp_ready = FALSE /\ rp2040_ready = FALSE /\ ice40_ready = FALSE
    /\ bno055_ready = FALSE /\ bme680_ready = FALSE
    /\ rp2040_fw_version = 0
    /\ initOk = {}

event_handler ==
    \/ OnStaStart
    \/ OnStaStop
    \/ OnDisconnected
    \/ OnDisconnectedLoad
    \/ OnDisconnectedStore
    \/ OnGotIp

ConnectSteps ==
    \/ ConnectSetMax
    \/ ConnectDisconnect
    \/ ConnectStop
    \/ ConnectClearBits
    \/ ConnectConfigure

wifi_connect_async ==
    \/ \E n \in RetryArgs, b \in BOOLEAN : ConnectCall(n, b)
    \/ ConnectSteps

wifi_await ==
    \/ \E t \in {0, 1} : AwaitCall(t)
    \/ AwaitReturn

wifi_disconnect ==
    \/ DisconnectCall
    \/ DisconnectStop

wifi_scan ==
    \/ ScanCall
    \/ ScanRetry
    \/ ScanCollect

Hardware ==
    \/ HwAssocFail(TRUE)
    \/ HwGotIp
    \/ HwLinkLost(TRUE)

\* The caller's return (pc = "done") is an instant: the caller resumes before
\* the event task or the hardware takes its next step.
Running == pc # "done"

Next ==
    \/ wifi_connect_async
    \/ wifi_await
    \/ wifi_disconnect
    \/ wifi_scan
    \/ IsConnected
    \/ GetIpInfo
    \/ Resume
    \/ Running /\ event_handler
    \/ Running /\ Hardware

Spec == Init /\ [][Next]_vars


\* A station that is only ever asked to connect with WIFI_INFINITE_RETRIES,
\* and whose hardware disassociates without bound.
NextInfinite ==
    \/ ConnectCall(WIFI_INFINITE_RETRIES, FALSE)
    \/ ConnectSteps
    \/ Resume
    \/ Running /\ event_handler
    \/ Running /\ HwAssocFail(FALSE)
    \/ Running /\ HwGotIp
    \/ Running /\ HwLinkLost(FALSE)

SpecInfinite == Init /\ [][NextInfinite]_vars

\* ------------------------------------------------------ wifi_rssi_to_strength
\* int8_t rssi
RssiMin == -128
RssiMax == 127
RssiValues == RssiMin .. RssiMax

\* WIFI_THRESH_VERY_GOOD > WIFI_THRESH_GOOD > WIFI_THRESH_BAD: the triples
\* th = <<T1, T2, T3>> tried, around 0 and at the ends of the int8_t range.
ThreshSpan == 2
ThreshValues == {RssiMin, RssiMax} \cup (-ThreshSpan .. ThreshSpan)
Thresholds ==
    {th \in ThreshValues \X ThreshValues \X ThreshValues : th[1] > th[2] /\ th[2] > th[3]}

\* A variant that puts a value equal to a threshold in the higher bucket.
wifi_rssi_to_strength_ge(rssi, th) ==
    IF rssi >= th[1] THEN "WIFI_STRENGTH_VERY_GOOD"
    ELSE IF rssi >= th[2] THEN "WIFI_STRENGTH_GOOD"
    ELSE IF rssi >= th[3] THEN "WIFI_STRENGTH_BAD"
    ELSE "WIFI_STRENGTH_VERY_BAD"

wifi_rssi_to_strength(rssi, th) ==
    IF rssi > th[1] THEN "WIFI_STRENGTH_VERY_GOOD"
    ELSE IF rssi > th[2] THEN "WIFI_STRENGTH_GOOD"
    ELSE IF rssi > th[3] THEN "WIFI_STRENGTH_BAD"
    ELSE "WIFI_STRENGTH_VERY_BAD"

\* A call of wifi_rssi_to_strength(r) built with the thresholds th.
RssiToStrength(r, th) ==
    /\ pc = "idle"
    /\ ret' = [op |-> "rssi_to_strength",
               val |-> [rssi |-> r, thresh |-> th,
                        strength |-> wifi_rssi_to_strength(r, th)]]
    /\ pc' = "done"
    /\ UNCHANGED <<statics, aRetryMax, blocking, timeout, awBits, stopWhenDone,
                   evVars, hwVars, evHist, dcHist, opHist>>
    /\ UNCHANGED bspVars

NextRssi ==
    \/ \E r \in RssiValues, th \in Thresholds : RssiToStrength(r, th)
    \/ Resume

SpecRssi == Init /\ [][NextRssi]_vars

\* ------------------------------------------- the stored station configuration
\* wifi_config.sta.ssid is uint8_t[32], wifi_config.sta.password uint8_t[64].
SsidCap == 32
PasswordCap == 64

\* The C strings tried as aSsid and aPassword: every length up to MaxOver
\* bytes past the capacity, in MaxPattern byte patterns of non-zero bytes
\* (the terminating zero byte is not part of the sequence).
MaxOver == 1
MaxPattern == 1
CString(len, k) == [i \in 1 .. len |-> 1 + ((i * k + k) % 5)]
SsidArgs == {CString(len, k) : len \in 0 .. SsidCap + MaxOver, k \in 1 .. MaxPattern}
PasswordArgs == {CString(len, k) : len \in 0 .. PasswordCap + MaxOver, k \in 1 .. MaxPattern}

\* A variant of strnlen that leaves room for a terminating zero byte.
strnlen_terminated(str, maxlen) == IF Len(str) < maxlen - 1 THEN Len(str) ELSE maxlen - 1

\* strnlen(str, maxlen)
strnlen(str, maxlen) == IF Len(str) < maxlen THEN Len(str) ELSE maxlen

\* wifi_config_t wifi_config = {0}: a field of n zero bytes.
ZeroField(n) == [i \in 1 .. n |-> 0]

\* memcpy(dst, src, n), for n within both dst and src.
memcpy(dst, src, n) == [i \in 1 .. Len(dst) |-> IF i <= n THEN src[i] ELSE dst[i]]

\* wifi_config.sta.ssid after memcpy(ssid, aSsid, strnlen(aSsid, 32)), in both
\* variants.
StoredSsid(aSsid) == memcpy(ZeroField(SsidCap), aSsid, strnlen(aSsid, SsidCap))

\* wifi_config.sta.password: memcpy(password, aPassword,
\* strnlen(aPassword, 64)) in the personal variant (~e); the enterprise
\* variant (e) leaves the field zero and hands the password to
\* esp_wifi_sta_wpa2_ent_set_password.
StoredPassword(e, aPassword) ==
    IF e THEN ZeroField(PasswordCap)
    ELSE memcpy(ZeroField(PasswordCap), aPassword, strnlen(aPassword, PasswordCap))

\* The wifi_config that wifi_connect_async (~e) or wifi_connect_ent_async (e)
\* builds and hands to esp_wifi_set_config; building it has no failure
\* branch.
BuildConfig(e, aSsid, aPassword) ==
    /\ pc = "idle"
    /\ ret' = [op |-> "wifi_config",
               val |-> [ent |-> e, aSsid |-> aSsid, aPassword |-> aPassword,
                        ssid |-> StoredSsid(aSsid),
                        password |-> StoredPassword(e, aPassword)]]
    /\ pc' = "done"
    /\ UNCHANGED <<statics, aRetryMax, blocking, timeout, awBits, stopWhenDone,
                   evVars, hwVars, evHist, dcHist, opHist>>
    /\ UNCHANGED bspVars

NextConfig ==
    \/ \E e \in BOOLEAN, id \in SsidArgs, pw \in PasswordArgs : BuildConfig(e, id, pw)
    \/ Resume

SpecConfig == Init /\ [][NextConfig]_vars

\* ------------------------------------------------------------------ hardware.c
ESP_OK == "ESP_OK"
ESP_FAIL == "ESP_FAIL"
\* The errors a driver call can return.
DriverErrors == {ESP_FAIL, "ESP_ERR_TIMEOUT"}

\* rp2040_fw_version == 0xFF: the co-processor is in bootloader mode.
FwBootloader == 255
\* The firmware versions the co-processor reports.
MaxFwVersion == 1
FwVersions == (0 .. MaxFwVersion) \cup {FwBootloader}

\* What a bsp_*_init call hands back: its esp_err_t, and whether it called
\* a driver.
InitRet(name, res, touched) == [op |-> name, val |-> [res |-> res, touched |-> touched]]

\* The init functions that have returned ESP_OK.
Returned(name, res) == IF res = ESP_OK THEN initOk \cup {name} ELSE initOk

\* What hardware.c leaves alone.
BspFrame ==
    UNCHANGED <<statics, aRetryMax, blocking, timeout, awBits, stopWhenDone,
                evVars, hwVars, evHist, dcHist, opHist>>

\* A call that returns res before any driver call, changing nothing.
EarlyReturn(name, res) ==
    /\ ret' = InitRet(name, res, FALSE)
    /\ initOk' = Returned(name, res)
    /\ UNCHANGED <<bspFlags, rp2040_fw_version>>

\* A call that returns the error res of a rejected driver call.
DriverRejected(name, res) ==
    /\ ret' = InitRet(name, res, TRUE)
    /\ initOk' = initOk
    /\ UNCHANGED bspFlags

\* bsp_init(): gpio_install_isr_service, i2c_init, spi_bus_initialize,
\* gpio_set_direction and ili9341_init, any of which can be rejected.
bsp_init ==
    /\ pc = "idle" /\ pc' = "done"
    /\ IF bsp_ready
         THEN EarlyReturn("bsp_init", ESP_OK)
         ELSE \/ /\ \E e \in DriverErrors : DriverRejected("bsp_init", e)
                 /\ UNCHANGED rp2040_fw_version
              \/ /\ bsp_ready' = TRUE
                 /\ ret' = InitRet("bsp_init", ESP_OK, TRUE)
                 /\ initOk' = Returned("bsp_init", ESP_OK)
                 /\ UNCHANGED <<rp2040_ready, ice40_ready, bno055_ready, bme680_ready,
                                rp2040_fw_version>>
    /\ BspFrame

\* bsp_rp2040_init(): rp2040_init, then rp2040_get_firmware_version, which
\* writes rp2040_fw_version and, when it fails, may have written it or not.
bsp_rp2040_init ==
    /\ pc = "idle" /\ pc' = "done"
    /\ IF ~bsp_ready THEN EarlyReturn("bsp_rp2040_init", ESP_FAIL)
       ELSE IF rp2040_ready THEN EarlyReturn("bsp_rp2040_init", ESP_OK)
       ELSE \/ /\ \E e \in DriverErrors : DriverRejected("bsp_rp2040_init", e)
               /\ UNCHANGED rp2040_fw_version
            \/ /\ DriverRejected("bsp_rp2040_init", ESP_FAIL)
               /\ rp2040_fw_version' \in FwVersions \cup {rp2040_fw_version}
            \/ /\ rp2040_fw_version' \in FwVersions
               /\ rp2040_ready' = TRUE
               /\ ret' = InitRet("bsp_rp2040_init", ESP_OK, TRUE)
               /\ initOk' = Returned("bsp_rp2040_init", ESP_OK)
               /\ UNCHANGED <<bsp_ready, ice40_ready, bno055_ready, bme680_ready>>
    /\ BspFrame

\* A variant of the guard of bsp_ice40_init without the firmware test.
Ice40AllowedAnyFirmware(bsp, rp, fw) == bsp /\ rp

\* The guard of bsp_ice40_init: bsp_ready, rp2040_ready and a co-processor
\* that is not in bootloader mode.
Ice40Allowed(bsp, rp, fw) == bsp /\ rp /\ fw # FwBootloader

\* bsp_ice40_init(): ice40_init, ice40_get_done, and ESP_FAIL if the FPGA
\* reports done while it is disabled.
bsp_ice40_init ==
    /\ pc = "idle" /\ pc' = "done"
    /\ IF ~Ice40Allowed(bsp_ready, rp2040_ready, rp2040_fw_version)
         THEN EarlyReturn("bsp_ice40_init", ESP_FAIL)
       ELSE IF ice40_ready THEN EarlyReturn("bsp_ice40_init", ESP_OK)
       ELSE \/ \E e \in DriverErrors : DriverRejected("bsp_ice40_init", e)
            \/ DriverRejected("bsp_ice40_init", ESP_FAIL)
            \/ /\ ice40_ready' = TRUE
               /\ ret' = InitRet("bsp_ice40_init", ESP_OK, TRUE)
               /\ initOk' = Returned("bsp_ice40_init", ESP_OK)
               /\ UNCHANGED <<bsp_ready, rp2040_ready, bno055_ready, bme680_ready>>
    /\ UNCHANGED rp2040_fw_version
    /\ BspFrame

\* bsp_bno055_init(): bno055_init, then bno055_set_power_mode.
bsp_bno055_init ==
    /\ pc = "idle" /\ pc' = "done"
    /\ IF ~bsp_ready THEN EarlyReturn("bsp_bno055_init", ESP_FAIL)
       ELSE IF bno055_ready THEN EarlyReturn("bsp_bno055_init", ESP_OK)
       ELSE \/ \E e \in DriverErrors : DriverRejected("bsp_bno055_init", e)
            \/ /\ bno055_ready' = TRUE
               /\ ret' = InitRet("bsp_bno055_init", ESP_OK, TRUE)
               /\ initOk' = Returned("bsp_bno055_init", ESP_OK)
               /\ UNCHANGED <<bsp_ready, rp2040_ready, ice40_ready, bme680_ready>>
    /\ UNCHANGED rp2040_fw_version
    /\ BspFrame

\* bsp_bme680_init(): bme680_init.
bsp_bme680_init ==
    /\ pc = "idle" /\ pc' = "done"
    /\ IF ~bsp_ready THEN EarlyReturn("bsp_bme680_init", ESP_FAIL)
       ELSE IF bme680_ready THEN EarlyReturn("bsp_bme680_init", ESP_OK)
       ELSE \/ \E e \in DriverErrors : DriverRejected("bsp_bme680_init", e)
            \/ /\ bme680_ready' = TRUE
               /\ ret' = InitRet("bsp_bme680_init", ESP_OK, TRUE)
               /\ initOk' = Returned("bsp_bme680_init", ESP_OK)
               /\ UNCHANGED <<bsp_ready, rp2040_ready, ice40_ready, bno055_ready>>
    /\ UNCHANGED rp2040_fw_version
    /\ BspFrame

\* What a get_* accessor returns: the device's address if its flag is set.
DevicePtr(ready) == IF ready THEN "device" ELSE "NULL"

\* A get_* accessor testing the flag ready.
Accessor(name, ready) ==
    /\ pc = "idle" /\ pc' = "done"
    /\ ret' = [op |-> name, val |-> DevicePtr(ready)]
    /\ UNCHANGED bspVars
    /\ BspFrame

get_ili9341 == Accessor("get_ili9341", bsp_ready)
get_rp2040 == Accessor("get_rp2040", rp2040_ready)
get_ice40 == Accessor("get_ice40", ice40_ready)
get_bno055 == Accessor("get_bno055", bno055_ready)
get_bme680 == Accessor("get_bme680", bme680_ready)

NextBsp ==
    \/ bsp_init
    \/ bsp_rp2040_init
    \/ bsp_ice40_init
    \/ bsp_bno055_init
    \/ bsp_bme680_init
    \/ get_ili9341
    \/ get_rp2040
    \/ get_ice40
    \/ get_bno055
    \/ get_bme680
    \/ Resume

SpecBsp == Init /\ [][NextBsp]_vars

\* ------------------------------------------------------------------ properties
\* A connect call has finished its reset (retryCount, maxRetries, the event
\* bits) with a finite limit, and no wifi_disconnect followed it.
ResetPcs == {"ca_max", "ca_disc", "ca_stop", "ca_clear"}
ConnectArmed ==
    /\ lastCall = "connect"
    /\ pc \notin ResetPcs
    /\ maxRetries # WIFI_INFINITE_RETRIES

\* The handler is between two events.
HandlerIdle == evpc = "idle"

\* C1: for a finite limit N >= 1 set by a connect call, once N consecutive
\* disassociations have been handled with no address obtained in between,
\* the FAIL bit is set and an await that returns then returns false.
C1_FailAfterLimitDisassociations ==
    (ConnectArmed /\ HandlerIdle /\ maxRetries >= 1
        /\ evShape = "dis" /\ disCnt = maxRetries)
    => /\ WIFI_FAIL_BIT \in wifiEventGroup
       /\ (pc = "done" /\ ret.op \in {"await", "connect"}) => ret.val = FALSE

\* C2: a connection started with a finite limit N >= 1 that ends with the
\* FAIL bit has asked the hardware to connect at most N times.
C2_AtMostLimitConnectRequests ==
    (ConnectArmed /\ maxRetries >= 1 /\ evShape = "dis"
        /\ WIFI_FAIL_BIT \in wifiEventGroup)
    => connReqs <= maxRetries

\* C3: wifi_is_connected returns true exactly when the most recent of the
\* address-obtained and disassociation events handled was an
\* address-obtained event.
C3_IsConnectedFollowsLastEvent ==
    (pc = "done" /\ ret.op = "is_connected" /\ (disCnt > 0 \/ evShape # "dis"))
    => (ret.val <=> evShape \in {"got", "later_got"})

\* C4: after wifi_disconnect, and until the next connect call, no
\* disassociation event makes the handler ask the hardware to connect, however
\* many are delivered and whatever retryCount holds.
C4_NoReconnectAfterDisconnect == ~discReconnect

\* Two disassociations have been handled after wifi_disconnect, the second
\* with a retryCount the handler had already raised.
C4_Witness ==
    /\ lastCall = "disconnect" /\ pc \notin {"dc_stop"}
    /\ disCnt >= 2
    /\ retryCount >= 1

\* C5: whenever wifi_scan returns, on success or on failure, isScanning is
\* false.
C5_ScanningClearedOnReturn ==
    (pc = "done" /\ ret.op = "scan") => ~isScanning

\* C6: wifi_scan leaves the station as it found it: stopped at the return if
\* it was stopped at the call, on every exit path, and running if it was
\* running.
C6_ScanRestoresStation ==
    (pc = "done" /\ ret.op = "scan") => (hw = "stopped" <=> ~scanWasRunning)

\* C7: a blocking connect one of whose hardware calls was rejected does not
\* wait forever: while it waits, some step of the program can still happen.
C7_RejectedConnectNotStuck ==
    (pc = "aw_wait" /\ blocking /\ hwFailed) => ENABLED Next

\* C8: when wifi_await wakes or times out it returns true exactly if the
\* CONNECTED bit is set, also when the FAIL bit is set as well, and then stops
\* nothing; otherwise it stops the station and returns false. It changes
\* neither retryCount nor maxRetries nor any event bit.
C8_AwaitResult ==
    [][(pc = "aw_wait" /\ pc' = "done") =>
          /\ ret'.val = (WIFI_CONNECTED_BIT \in wifiEventGroup)
          /\ WIFI_CONNECTED_BIT \in wifiEventGroup
                => (~awaitStop' /\ UNCHANGED hwVars)
          /\ WIFI_CONNECTED_BIT \notin wifiEventGroup
                => (awaitStop' /\ hw' = "stopped")
          /\ UNCHANGED <<retryCount, maxRetries, wifiEventGroup>>]_vars

\* wifi_await returned true with both the CONNECTED and the FAIL bit set.
C8_Witness ==
    /\ pc = "done" /\ ret.op = "await" /\ ret.val = TRUE
    /\ {WIFI_CONNECTED_BIT, WIFI_FAIL_BIT} \subseteq awBits
    /\ ~awaitStop

\* C9: with maxRetries = WIFI_INFINITE_RETRIES every disassociation event
\* makes the handler ask the hardware to connect and leaves the FAIL bit
\* clear, also when the 8-bit retryCount is about to wrap.
C9_InfiniteAlwaysRetries ==
    [][(/\ maxRetries = WIFI_INFINITE_RETRIES
        /\ evpc = "idle" /\ queue # <<>>
        /\ Head(queue).type = "STA_DISCONNECTED"
        /\ queue' = Tail(queue))
       => /\ evpc' = "inc_load"
          /\ hw' = HwConnect(hw)
          /\ WIFI_FAIL_BIT \notin wifiEventGroup']_vars

\* The handler has retried with retryCount = 255 and is about to store the
\* wrapped value.
C9_Witness ==
    /\ maxRetries = WIFI_INFINITE_RETRIES
    /\ evpc = "inc_store" /\ evtmp = ByteMod - 1
    /\ IncByte(evtmp) = 0
    /\ WIFI_FAIL_BIT \notin wifiEventGroup

\* C10: a blocking connect with limit N that sees k <= N - 1 disassociations
\* and then an address-obtained event returns true with retryCount = 0, and
\* wifi_get_ip_info returns the address of the last such event.
C10_ConnectSucceedsWithinLimit ==
    /\ (ConnectArmed /\ pc = "done" /\ ret.op = "connect"
            /\ evShape = "got" /\ disCnt < maxRetries)
        => (ret.val = TRUE /\ retryCount = 0 /\ ip_info = lastGotIp)
    /\ (pc = "done" /\ ret.op = "get_ip_info" /\ evShape \in {"got", "later_got"})
        => ret.val = lastGotIp

\* A blocking connect returned true after one disassociation and an
\* address-obtained event.
C10_Witness ==
    /\ ConnectArmed /\ pc = "done" /\ ret.op = "connect" /\ ret.val = TRUE
    /\ evShape = "got" /\ disCnt >= 1 /\ disCnt < maxRetries
    /\ ip_info \in IpChoices

\* C11: a blocking connect with finite limit N whose station reports N + 1
\* disassociations and no address returns false, with the FAIL bit set, the
\* CONNECTED bit clear and the station stopped by wifi_await.
C11_ConnectFailsPastLimit ==
    (ConnectArmed /\ evShape = "dis" /\ disCnt = maxRetries + 1)
    => /\ WIFI_FAIL_BIT \in wifiEventGroup
       /\ WIFI_CONNECTED_BIT \notin wifiEventGroup
       /\ (pc = "done" /\ ret.op = "connect")
            => (ret.val = FALSE /\ awaitStop /\ hw = "stopped"
                /\ WIFI_FAIL_BIT \in awBits)

\* A blocking connect with limit 2 returned false after three disassociations.
C11_Witness ==
    /\ ConnectArmed /\ pc = "done" /\ ret.op = "connect" /\ ret.val = FALSE
    /\ evShape = "dis" /\ maxRetries = MaxRetryArg /\ disCnt = maxRetries + 1
    /\ retryCount = maxRetries

\* C12: wifi_scan returns the count 0 and leaves the caller's output
\* untouched on every failure: a rejected scan start (first or second try),
\* mode set or station start, a rejected get_ap_num, a failed allocation and
\* a rejected get_ap_records.
ScanFailures ==
    {"scan_start", "set_mode", "start", "scan_retry"} \cup ScanErrorPaths
C12_ScanFailureReturnsEmpty ==
    (pc = "done" /\ ret.op = "scan")
    => /\ scanExit \in ScanFailures \cup {"success"}
       /\ scanExit \in ScanFailures
            => (ret.val.count = 0 /\ ret.val.aps_out = "untouched")

\* wifi_scan returned after esp_wifi_scan_get_ap_records was rejected, on a
\* station it had started itself.
C12_Witness ==
    /\ pc = "done" /\ ret.op = "scan" /\ scanExit = "get_ap_records"
    /\ ~scanWasRunning
    /\ ret.val.count = 0

\* C13: for every int8_t rssi and thresholds T1 > T2 > T3,
\* wifi_rssi_to_strength gives VERY_GOOD iff rssi > T1, GOOD iff
\* T2 < rssi <= T1, BAD iff T3 < rssi <= T2 and VERY_BAD iff rssi <= T3.
C13_RssiBuckets ==
    (pc = "done" /\ ret.op = "rssi_to_strength")
    => LET r == ret.val.rssi
           T1 == ret.val.thresh[1]
           T2 == ret.val.thresh[2]
           T3 == ret.val.thresh[3]
           st == ret.val.strength
       IN /\ st = "WIFI_STRENGTH_VERY_GOOD" <=> r > T1
          /\ st = "WIFI_STRENGTH_GOOD" <=> (T2 < r /\ r <= T1)
          /\ st = "WIFI_STRENGTH_BAD" <=> (T3 < r /\ r <= T2)
          /\ st = "WIFI_STRENGTH_VERY_BAD" <=> r <= T3

\* An rssi equal to the middle threshold was classified BAD.
C13_Witness ==
    /\ pc = "done" /\ ret.op = "rssi_to_strength"
    /\ ret.val.rssi = ret.val.thresh[2]
    /\ ret.val.strength = "WIFI_STRENGTH_BAD"

\* C14: in both variants the stored SSID is the first min(len, 32) bytes of
\* the given SSID followed by zero bytes; in the personal variant the stored
\* passphrase is the first min(len, 64) bytes of the given passphrase; an
\* over-long value is truncated, not rejected.
Truncated(field, cap, str) ==
    /\ Len(field) = cap
    /\ \A i \in 1 .. cap :
         field[i] = IF i <= Len(str) THEN str[i] ELSE 0
C14_ConfigTruncates ==
    (pc = "done" /\ ret.op = "wifi_config")
    => /\ Truncated(ret.val.ssid, SsidCap, ret.val.aSsid)
       /\ ~ret.val.ent => Truncated(ret.val.password, PasswordCap, ret.val.aPassword)

\* A personal configuration was built from an SSID longer than 32 bytes and a
\* passphrase longer than 64 bytes.
C14_Witness ==
    /\ pc = "done" /\ ret.op = "wifi_config" /\ ~ret.val.ent
    /\ Len(ret.val.aSsid) > SsidCap
    /\ Len(ret.val.aPassword) > PasswordCap
    /\ ret.val.ssid[SsidCap] = ret.val.aSsid[SsidCap]

\* C15: under every interleaving with the event task, a connect call stores
\* its aRetryMax in maxRetries and keeps it through its reset, and at the
\* moment it goes on to its first configuration call (esp_wifi_set_mode)
\* retryCount = 0 and none of the STARTED, CONNECTED and FAIL bits is set.
C15_ResetBeforeConfigure ==
    [][/\ (pc = "ca_max" /\ pc' = "ca_disc") => maxRetries' = aRetryMax
       /\ (pc \in ResetPcs \ {"ca_max"} \/ pc = "ca_cfg") => maxRetries' = maxRetries
       /\ (pc = "ca_cfg" /\ pc' # "ca_cfg")
            => (retryCount = 0 /\ wifiEventGroup \cap AllBits = {})]_vars

\* The event task takes the event of type t off the queue and handles it.
Handles(t) ==
    /\ evpc = "idle" /\ queue # <<>>
    /\ Head(queue).type = t
    /\ queue' = Tail(queue)

\* A wifi_scan call is in progress.
ScanPcs == {"sc_retry", "sc_collect"}

\* C16: every station-started event sets the STARTED bit, and it asks a
\* started, idle station to connect exactly if no wifi_scan call is in
\* progress when it is handled; so after wifi_scan has returned, by whatever
\* exit, the next station-started event does ask it to connect.
C16_StartConnectsUnlessScanning ==
    [][Handles("STA_START")
        => /\ WIFI_STARTED_BIT \in wifiEventGroup'
           /\ hw = "idle" => (hw' = "connecting" <=> pc \notin ScanPcs)]_vars

\* C17: no step of a caller's operation (the steps that move pc) writes
\* retryCount, maxRetries, ip_info or an event bit; only the event handler
\* does, so none of them changes under the handler while it is inside its
\* read-check-increment of retryCount.
C17_HandlerSoleWriter ==
    [][pc' # pc => UNCHANGED <<retryCount, maxRetries, ip_info, wifiEventGroup>>]_vars

\* C18: the FAIL bit becomes set only when a disassociation event is handled
\* with a finite maxRetries and retryCount >= maxRetries, and once set it
\* stays set, also across a later address-obtained event, until a connect
\* call clears the event bits.
C18_FailOnlyOnExhaustion ==
    [][/\ (WIFI_FAIL_BIT \notin wifiEventGroup /\ WIFI_FAIL_BIT \in wifiEventGroup')
            => /\ Handles("STA_DISCONNECTED")
               /\ maxRetries # WIFI_INFINITE_RETRIES
               /\ retryCount >= maxRetries
       /\ (WIFI_FAIL_BIT \in wifiEventGroup /\ WIFI_FAIL_BIT \notin wifiEventGroup')
            => (pc = "ca_clear" /\ pc' = "ca_cfg")]_vars

\* The FAIL bit was set by a disassociation and an address-obtained event
\* handled after it set the CONNECTED bit next to it.
C18_Witness ==
    /\ pc \notin ResetPcs
    /\ evShape = "got" /\ disCnt >= 1
    /\ {WIFI_FAIL_BIT, WIFI_CONNECTED_BIT} \subseteq wifiEventGroup

\* C19: ip_info changes only when an address-obtained event is handled and
\* then becomes that event's address, netmask and gateway; every other step
\* leaves it alone, so wifi_get_ip_info returns the values of the last such
\* event, all zero before the first, also after the connection is lost or a
\* new connect is requested.
C19_IpInfoOnlyFromGotIp ==
    [][/\ ip_info' # ip_info => Handles("GOT_IP")
       /\ Handles("GOT_IP") => ip_info' = Head(queue).info
       /\ ip_info' = lastGotIp'
       /\ (pc = "idle" /\ pc' = "done" /\ ret'.op = "get_ip_info")
            => ret'.val = lastGotIp]_vars

\* wifi_get_ip_info returned an obtained address after a new connect call
\* had cleared the CONNECTED bit and a disassociation had been handled.
C19_Witness ==
    /\ pc = "done" /\ ret.op = "get_ip_info"
    /\ ret.val \in IpChoices
    /\ lastCall = "connect"
    /\ WIFI_CONNECTED_BIT \notin wifiEventGroup
    /\ evShape = "dis" /\ disCnt >= 1

\* C20: a blocking connect with a finite limit all of whose hardware calls
\* succeeded does not wait forever, whatever calls completed before it: while
\* it waits, some step of the program (an event to handle, an answer of the
\* station, its own return) can still happen.
C20_CooperativeConnectNotStuck ==
    (pc = "aw_wait" /\ blocking /\ ~hwFailed /\ maxRetries # WIFI_INFINITE_RETRIES)
    => ENABLED Next

\* The flag each init function sets, and the init function behind each
\* accessor.
ReadyFlag ==
    [bsp_init |-> bsp_ready, bsp_rp2040_init |-> rp2040_ready,
     bsp_ice40_init |-> ice40_ready, bsp_bno055_init |-> bno055_ready,
     bsp_bme680_init |-> bme680_ready]
InitNames == DOMAIN ReadyFlag
InitOf ==
    [get_ili9341 |-> "bsp_init", get_rp2040 |-> "bsp_rp2040_init",
     get_ice40 |-> "bsp_ice40_init", get_bno055 |-> "bsp_bno055_init",
     get_bme680 |-> "bsp_bme680_init"]

\* C21: over any sequence of calls, bsp_rp2040_init, bsp_bno055_init and
\* bsp_bme680_init fail unless bsp_init has returned ESP_OK; bsp_ice40_init
\* fails unless bsp_init and bsp_rp2040_init have returned ESP_OK and the
\* firmware version is not 0xFF; an accessor returns its device only after
\* that device's init has returned ESP_OK; a readiness flag that is true stays
\* true; an init call on a device that is ready returns ESP_OK without
\* calling a driver and changes nothing.
C21_BringUpOrdered ==
    [][/\ (pc = "idle" /\ pc' = "done" /\ ret'.op \in InitNames)
            => /\ (ret'.op \in {"bsp_rp2040_init", "bsp_bno055_init", "bsp_bme680_init"}
                    /\ "bsp_init" \notin initOk)
                   => ret'.val.res # ESP_OK
               /\ (ret'.op = "bsp_ice40_init"
                    /\ (\/ "bsp_init" \notin initOk
                        \/ "bsp_rp2040_init" \notin initOk
                        \/ rp2040_fw_version = FwBootloader))
                   => ret'.val.res # ESP_OK
               /\ ReadyFlag[ret'.op]
                   => /\ ret'.val.res = ESP_OK
                      /\ ~ret'.val.touched
                      /\ UNCHANGED <<bspFlags, rp2040_fw_version>>
       /\ (pc = "idle" /\ pc' = "done" /\ ret'.op \in DOMAIN InitOf
               /\ ret'.val # "NULL")
            => InitOf[ret'.op] \in initOk
       /\ \A n \in InitNames : ReadyFlag[n] => ReadyFlag[n]']_vars

\* bsp_ice40_init, called again on a ready FPGA, returned ESP_OK without
\* calling a driver.
C21_Witness ==
    /\ pc = "done" /\ ret.op = "bsp_ice40_init"
    /\ ret.val.res = ESP_OK /\ ~ret.val.touched
    /\ ice40_ready /\ rp2040_ready /\ bsp_ready
    /\ rp2040_fw_version # FwBootloader

====
